---- MODULE Spec2Model ----
\* Model of the two folddisco_pipeline scripts:
\*   generate_folddisco_input.py  (manifest generator)
\*   combine_motif_outputs.py     (output combiner)
\* Python strings are modelled as sequences of one-character strings.
EXTENDS Integers, Sequences, FiniteSets, TLC

VARIABLES
    pc,                   \* position of the running script / function call
    args,                 \* parsed command-line arguments or function arguments
    result,               \* return value of the pure function under call
    \* ---- generator (generate_folddisco_input.py main) ----
    rows,                 \* rows: List[str] accumulated manifest rows
    made_dirs,            \* directories created by mkdir
    manifest,             \* content written to out_path (NotWritten before)
    \* ---- combiner (combine_motif_outputs.py main) ----
    files,                \* files: sorted list of matched motif files
    fidx,                 \* index of the file being processed
    q_clean,              \* cleaned query id of the current file
    scanned,              \* lines read so far, one sequence per file
    out_fh,               \* content of args.output (NotWritten if never opened)
    total_raw_lines,
    total_kept,
    total_self,
    total_lookup_missing,
    missing_ids,
    lookup,               \* lookup: Optional[Set[str]] loaded from --scop-lookup
    report_file,          \* content of args.report_missing (NotWritten if never opened)
    exit_code             \* process exit status (-1 while running)

pureVars == <<result>>
genVars  == <<rows, made_dirs, manifest>>
combVars == <<files, fidx, q_clean, scanned, out_fh, total_raw_lines, total_kept,
              total_self, total_lookup_missing, missing_ids, report_file>>
vars     == <<pc, args, result, rows, made_dirs, manifest, files, fidx, q_clean,
              scanned, out_fh, total_raw_lines, total_kept, total_self,
              total_lookup_missing, missing_ids, report_file, lookup, exit_code>>

\* A file that no open(..., 'w') has touched.
NotWritten == [written |-> FALSE, lines |-> <<>>]
Written(ls) == [written |-> TRUE, lines |-> ls]

\* Optional[Set[str]]: present = FALSE is None
NoLookup == [present |-> FALSE, ids |-> {}]
Lookup(S) == [present |-> TRUE, ids |-> S]

\* Optional[str]
NoneVal == [some |-> FALSE, val |-> <<>>]
Some(x) == [some |-> TRUE, val |-> x]

-----------------------------------------------------------------------------
\* Bounds of the model

MaxN      == 4     \* longest score row
MaxIdxLen == 3     \* longest index list handed to collapse_ranges
MaxIdx    == 12    \* largest residue index handed to collapse_ranges
MaxFrags  == 3     \* raw ids are built from at most this many fragments
MaxIds    == 2     \* most identifiers (and score rows) handed to the generator
MaxFiles  == 2     \* most motif files in the input directory
MaxLines  == 2     \* most lines read from the motif files in one run

-----------------------------------------------------------------------------
\* Python string primitives

\* The characters used, in ASCII order (ord of a character = its position).
Ascii == << "\t", " ", "#", ",", "-", ".", "/",
            "0", "1", "2", "3", "4", "5", "6", "7", "8", "9",
            "A", "B", "C", "D", "E", "F", "G", "H", "I", "J", "K", "L", "M",
            "N", "O", "P", "Q", "R", "S", "T", "U", "V", "W", "X", "Y", "Z",
            "_",
            "a", "b", "c", "d", "e", "f", "g", "h", "i", "j", "k", "l", "m",
            "n", "o", "p", "q", "r", "s", "t", "u", "v", "w", "x", "y", "z" >>

\* ord(c), tabulated once
OrdOf == [c \in {Ascii[i] : i \in 1..Len(Ascii)} |->
            CHOOSE i \in 1..Len(Ascii) : Ascii[i] = c]
Ord(c) == OrdOf[c]

Digits == <<"0", "1", "2", "3", "4", "5", "6", "7", "8", "9">>
DigitSet == {Digits[i] : i \in 1..10}
UpperSet == {Ascii[i] : i \in OrdOf["A"]..OrdOf["Z"]}
LowerSet == {Ascii[i] : i \in OrdOf["a"]..OrdOf["z"]}

IsDigit(c) == c \in DigitSet
IsUpper(c) == c \in UpperSet
IsLowerCh(c) == c \in LowerSet
IsAlpha(c) == IsUpper(c) \/ IsLowerCh(c)
IsSpace(c) == c = " " \/ c = "\t"

\* str.lower() on one character, tabulated once
LowerOf == [c \in UpperSet |-> Ascii[OrdOf[c] - OrdOf["A"] + OrdOf["a"]]]
LowerChar(c) == IF c \in UpperSet THEN LowerOf[c] ELSE c

\* str.lower()
Lower(s) == [i \in 1..Len(s) |-> LowerChar(s[i])]

\* str.endswith(suf)
EndsWith(s, suf) ==
    /\ Len(s) >= Len(suf)
    /\ SubSeq(s, Len(s) - Len(suf) + 1, Len(s)) = suf

\* str.startswith(pre)
StartsWith(s, pre) ==
    /\ Len(s) >= Len(pre)
    /\ SubSeq(s, 1, Len(pre)) = pre

RECURSIVE LStrip(_)
LStrip(s) == IF s = <<>> THEN s
             ELSE IF IsSpace(Head(s)) THEN LStrip(Tail(s)) ELSE s

RECURSIVE RStrip(_)
RStrip(s) == IF s = <<>> THEN s
             ELSE IF IsSpace(s[Len(s)]) THEN RStrip(SubSeq(s, 1, Len(s) - 1)) ELSE s

\* str.strip()
Strip(s) == RStrip(LStrip(s))

\* c in s
Contains(s, c) == \E i \in 1..Len(s) : s[i] = c

\* position of the last occurrence of c in s (0 if none)
LastPos(s, c) == IF Contains(s, c)
                 THEN CHOOSE i \in 1..Len(s) :
                        /\ s[i] = c
                        /\ \A j \in (i + 1)..Len(s) : s[j] # c
                 ELSE 0

\* s.rsplit(c, 1)[-1]
RSplitLast(s, c) == SubSeq(s, LastPos(s, c) + 1, Len(s))

\* s.rsplit(c, 1)[0]
RSplitFirst(s, c) == IF Contains(s, c) THEN SubSeq(s, 1, LastPos(s, c) - 1) ELSE s

\* str(n) for n >= 0
RECURSIVE IntToStr(_)
IntToStr(n) == IF n < 10 THEN <<Digits[n + 1]>>
               ELSE IntToStr(n \div 10) \o <<Digits[(n % 10) + 1]>>

\* sep.join(parts)
RECURSIVE Join(_, _)
Join(sep, parts) == IF parts = <<>> THEN <<>>
                    ELSE IF Len(parts) = 1 THEN parts[1]
                    ELSE parts[1] \o sep \o Join(sep, Tail(parts))

\* s < t for Python strings (lexicographic by code point)
RECURSIVE StrLess(_, _)
StrLess(s, t) == IF t = <<>> THEN FALSE
                 ELSE IF s = <<>> THEN TRUE
                 ELSE IF Head(s) = Head(t) THEN StrLess(Tail(s), Tail(t))
                 ELSE Ord(Head(s)) < Ord(Head(t))

\* sorted(S) for a set of strings
RECURSIVE SortedStrs(_)
SortedStrs(S) == IF S = {} THEN <<>>
                 ELSE LET m == CHOOSE x \in S : \A y \in S \ {x} : StrLess(x, y)
                      IN <<m>> \o SortedStrs(S \ {m})

\* sorted(S) for a set of integers
RECURSIVE SortedInts(_)
SortedInts(S) == IF S = {} THEN <<>>
                 ELSE LET m == CHOOSE x \in S : \A y \in S : x <= y
                      IN <<m>> \o SortedInts(S \ {m})

Range(s) == {s[i] : i \in 1..Len(s)}

Max(a, b) == IF a >= b THEN a ELSE b
Min(a, b) == IF a <= b THEN a ELSE b

\* all sequences over S of length 0..n
SeqsUpTo(S, n) == UNION {[1..m -> S] : m \in 0..n}

-----------------------------------------------------------------------------
\* generate_folddisco_input.py : select_indices

\* A parsed score: a float or NaN.
NaN == [nan |-> TRUE, v |-> 0]
Num(x) == [nan |-> FALSE, v |-> x]

\* -1e9, the stand-in value of a NaN score
NanVal == -1000000000

\* math.ceil(n * (percent / 100.0)); percent is a whole number of percent here
\* and a multiple of 25, for which the float quotient and product are exact.
CeilPercent(n, percent) == -((-(n * percent)) \div 100)

\* indexed.sort(key=lambda t: t[1], reverse=True): stable, descending by value
RECURSIVE InsertDesc(_, _)
InsertDesc(sorted, t) ==
    IF sorted = <<>> THEN <<t>>
    ELSE IF Head(sorted)[2] >= t[2] THEN <<Head(sorted)>> \o InsertDesc(Tail(sorted), t)
    ELSE <<t>> \o sorted

RECURSIVE SortDesc(_)
SortDesc(s) == IF s = <<>> THEN <<>>
               ELSE InsertDesc(SortDesc(SubSeq(s, 1, Len(s) - 1)), s[Len(s)])

\* a slice that stops one element early
SliceToShort(s, k) == IF k >= 1 THEN SubSeq(s, 1, Min(k - 1, Len(s)))
                      ELSE SubSeq(s, 1, Max(0, Len(s) + k - 1))

\* seq[:k] with Python's meaning of a negative k
SliceTo(s, k) == IF k >= 0 THEN SubSeq(s, 1, Min(k, Len(s)))
                 ELSE SubSeq(s, 1, Max(0, Len(s) + k))

select_indices(scores, percent, min_res) ==
    LET indexed == [i \in 1..Len(scores) |->
                      <<i, IF scores[i].nan THEN NanVal ELSE scores[i].v>>]
        k       == Max(min_res, CeilPercent(Len(indexed), percent))
        top     == SliceTo(SortDesc(indexed), k)
    IN IF indexed = <<>> THEN <<>>
       ELSE [j \in 1..Len(top) |-> top[j][1]]

-----------------------------------------------------------------------------
\* generate_folddisco_input.py : collapse_ranges

\* f"{chain}{start}" / f"{chain}{start}-{prev}"
RangeToken(chain, start, prev) ==
    IF start = prev THEN chain \o IntToStr(start)
    ELSE chain \o IntToStr(start) \o <<"-">> \o IntToStr(prev)

\* the for loop over indices[1:] followed by the final append
RECURSIVE CollapseLoop(_, _, _, _, _)
CollapseLoop(chain, rest, start, prev, tokens) ==
    IF rest = <<>> THEN Append(tokens, RangeToken(chain, start, prev))
    ELSE LET x == Head(rest) IN
         IF x = prev + 1 THEN CollapseLoop(chain, Tail(rest), start, x, tokens)
         ELSE CollapseLoop(chain, Tail(rest), x, x,
                           Append(tokens, RangeToken(chain, start, prev)))

\* collapse_ranges without the sorted(set(...)) normalisation
collapse_ranges_unsorted(chain, indices) ==
    IF indices = <<>> THEN <<>>
    ELSE CollapseLoop(chain, Tail(indices), indices[1], indices[1], <<>>)

collapse_ranges(chain, indices) ==
    IF indices = <<>> THEN <<>>
    ELSE LET sorted == SortedInts(Range(indices))
         IN CollapseLoop(chain, Tail(sorted), sorted[1], sorted[1], <<>>)

-----------------------------------------------------------------------------
\* Idle values of the variables a specification does not use

IdleGen  == rows = <<>> /\ made_dirs = {} /\ manifest = NotWritten
IdleComb == /\ files = <<>> /\ fidx = 0 /\ q_clean = <<>> /\ scanned = <<>>
            /\ out_fh = NotWritten /\ total_raw_lines = 0 /\ total_kept = 0
            /\ total_self = 0 /\ total_lookup_missing = 0 /\ missing_ids = {}
            /\ report_file = NotWritten

-----------------------------------------------------------------------------
\* Calls of select_indices on bounded score rows

ScoreVals == {NaN, Num(1), Num(2), Num(-2000000000)}
Percents  == {-50, 0, 25, 50, 100, 150}
MinResVals == {-1, 0, 1, 2, MaxN + 1}

InitSelect ==
    /\ pc = "call"
    /\ args \in [scores : SeqsUpTo(ScoreVals, MaxN), percent : Percents,
                 min_res : MinResVals]
    /\ result = <<>>
    /\ exit_code = -1
    /\ lookup = NoLookup
    /\ IdleGen /\ IdleComb

SelectCall ==
    /\ pc = "call"
    /\ result' = select_indices(args.scores, args.percent, args.min_res)
    /\ pc' = "returned"
    /\ UNCHANGED <<args, exit_code, lookup, genVars, combVars>>

NextSelect == SelectCall

SpecSelect == InitSelect /\ [][NextSelect]_vars

\* the count the spec states: max(min_residues, ceil(N*P/100))
StatedCount == Max(args.min_res, CeilPercent(Len(args.scores), args.percent))

SelDistinctInRange ==
    /\ \A i, j \in 1..Len(result) : i # j => result[i] # result[j]
    /\ \A i \in 1..Len(result) : result[i] \in 1..Len(args.scores)

\* C1 (as stated): the number of selected indices equals
\* max(min_residues, ceil(N*P/100)), the indices are pairwise distinct and
\* every one lies in [1,N].
C1_Stated ==
    pc = "returned" =>
        /\ Len(result) = StatedCount
        /\ SelDistinctInRange

\* C1 (amended): with K = max(min_residues, ceil(N*P/100)) not negative, the
\* number of selected indices equals min(N, K): the count is capped by the row
\* length N; the indices are pairwise distinct and every one lies in [1,N].
C1_CountCapped ==
    (pc = "returned" /\ StatedCount >= 0) =>
        /\ Len(result) = Min(Len(args.scores), StatedCount)
        /\ SelDistinctInRange

\* a call in which the floor exceeds the row length has returned
C1_Witness ==
    /\ pc = "returned"
    /\ args.percent = 50
    /\ Len(args.scores) = 3
    /\ args.min_res = MaxN + 1
    /\ Len(result) = 3

\* the order the spec states on scores: NaN is below every number, two NaN
\* are equal
StatedAtLeast(a, b) == b.nan \/ (~a.nan /\ a.v >= b.v)
StatedEqual(a, b)   == StatedAtLeast(a, b) /\ StatedAtLeast(b, a)

Selected    == Range(result)
NotSelected == (1..Len(args.scores)) \ Selected

\* C12: select_indices picks the top residues by score with NaN as the
\* minimal value: every selected index has a score at least that of every
\* non-selected index, a NaN residue is selected only if every non-selected
\* residue is NaN too, the result is in descending score order and equal
\* scores come in ascending residue index.
C12_TopK ==
    pc = "returned" =>
        /\ \A i \in Selected, j \in NotSelected :
              StatedAtLeast(args.scores[i], args.scores[j])
        /\ \A i \in Selected :
              args.scores[i].nan => \A j \in NotSelected : args.scores[j].nan
        /\ \A p, q \in 1..Len(result) :
              p < q => /\ StatedAtLeast(args.scores[result[p]], args.scores[result[q]])
                       /\ StatedEqual(args.scores[result[p]], args.scores[result[q]])
                          => result[p] < result[q]

\* a call on a row with a NaN and a score below -1e9 has returned a proper,
\* non-empty part of the row
C12_Reached ==
    /\ pc = "returned"
    /\ \E i, j \in 1..Len(args.scores) :
          args.scores[i].nan /\ ~args.scores[j].nan /\ args.scores[j].v < NanVal
    /\ result # <<>>
    /\ NotSelected # {}

\* the same on rows whose numbers are all above -1e9
C12_AboveSentinel ==
    (\A i \in 1..Len(args.scores) : args.scores[i].nan \/ args.scores[i].v > NanVal)
    => C12_TopK

-----------------------------------------------------------------------------
\* Calls of collapse_ranges on bounded index lists

Chains == {<<"A">>, <<"1">>}

InitCollapse ==
    /\ pc = "call"
    /\ args \in [chain : Chains, indices : SeqsUpTo(1..MaxIdx, MaxIdxLen)]
    /\ result = <<>>
    /\ exit_code = -1
    /\ lookup = NoLookup
    /\ IdleGen /\ IdleComb

CollapseCall ==
    /\ pc = "call"
    /\ result' = collapse_ranges(args.chain, args.indices)
    /\ pc' = "returned"
    /\ UNCHANGED <<args, exit_code, lookup, genVars, combVars>>

NextCollapse == CollapseCall

SpecCollapse == InitCollapse /\ [][NextCollapse]_vars

\* int(s) for a string of decimal digits
RECURSIVE StrToInt(_)
StrToInt(s) == IF s = <<>> THEN 0
               ELSE 10 * StrToInt(SubSeq(s, 1, Len(s) - 1))
                    + ((CHOOSE i \in 1..10 : Digits[i] = s[Len(s)]) - 1)

AllDigits(s) == s # <<>> /\ \A i \in 1..Len(s) : IsDigit(s[i])

\* a token is the chain followed by <i> or <a>-<b>
WellFormedToken(chain, tok) ==
    /\ StartsWith(tok, chain)
    /\ LET body == SubSeq(tok, Len(chain) + 1, Len(tok)) IN
       IF Contains(body, "-")
       THEN /\ AllDigits(RSplitFirst(body, "-"))
            /\ AllDigits(RSplitLast(body, "-"))
            /\ StrToInt(RSplitFirst(body, "-")) < StrToInt(RSplitLast(body, "-"))
       ELSE AllDigits(body)

\* the indices a token stands for, in ascending order
ExpandToken(chain, tok) ==
    LET body == SubSeq(tok, Len(chain) + 1, Len(tok))
        a    == IF Contains(body, "-") THEN StrToInt(RSplitFirst(body, "-"))
                ELSE StrToInt(body)
        b    == IF Contains(body, "-") THEN StrToInt(RSplitLast(body, "-"))
                ELSE StrToInt(body)
    IN [i \in 1..(b - a + 1) |-> a + i - 1]

RECURSIVE ExpandTokens(_, _)
ExpandTokens(chain, toks) ==
    IF toks = <<>> THEN <<>>
    ELSE ExpandToken(chain, Head(toks)) \o ExpandTokens(chain, Tail(toks))

\* C2: expanding every emitted token in emission order reproduces exactly the
\* sorted set of unique input indices; an empty input gives no tokens.
C2_Lossless ==
    pc = "returned" =>
        /\ \A i \in 1..Len(result) : WellFormedToken(args.chain, result[i])
        /\ ExpandTokens(args.chain, result) = SortedInts(Range(args.indices))
        /\ (args.indices = <<>> => result = <<>>)

\* an unsorted list with a run and a two-digit single has collapsed
C2_Witness ==
    /\ pc = "returned"
    /\ args.chain = <<"A">>
    /\ args.indices = <<12, 3, 2>>
    /\ result = << <<"A", "2", "-", "3">>, <<"A", "1", "2">> >>

-----------------------------------------------------------------------------
\* combine_motif_outputs.py : cleanup_id

STRUCT_EXTS == << <<".", "p", "d", "b">>, <<".", "c", "i", "f">>,
                  <<".", "e", "n", "t">>, <<".", "g", "z">> >>

\* one pass of `for ext in STRUCT_EXTS` starting at extension number i
RECURSIVE ExtPass(_, _)
ExtPass(x, i) ==
    IF i > Len(STRUCT_EXTS) THEN x
    ELSE IF EndsWith(Lower(x), STRUCT_EXTS[i])
         THEN ExtPass(SubSeq(x, 1, Len(x) - Len(STRUCT_EXTS[i])), i + 1)
         ELSE ExtPass(x, i + 1)

\* `while not done`: passes are repeated until one strips nothing
RECURSIVE StripExts(_)
StripExts(x) == LET y == ExtPass(x, 1) IN IF y = x THEN x ELSE StripExts(y)

\* a repair that hands back the id whether or not the lookup knows it
LookupRepairLax(x, ids) == Some(x)

\* the lookup branch of cleanup_id
LookupRepair(x, ids) ==
    IF x \in ids THEN Some(x)
    ELSE IF ~EndsWith(x, <<"_">>) /\ (x \o <<"_">>) \in ids THEN Some(x \o <<"_">>)
    ELSE IF EndsWith(x, <<"_">>) /\ SubSeq(x, 1, Len(x) - 1) \in ids
         THEN Some(SubSeq(x, 1, Len(x) - 1))
    ELSE NoneVal

\* lk is the lookup argument: [present |-> BOOLEAN, ids |-> set of ids]
cleanup_id(raw, lower, lk) ==
    LET x0 == Strip(raw)
        x1 == IF Contains(x0, "/") THEN RSplitLast(x0, "/") ELSE x0
        x2 == StripExts(x1)
        x  == IF lower THEN Lower(x2) ELSE x2
    IN IF lk.present THEN LookupRepair(x, lk.ids) ELSE Some(x)

-----------------------------------------------------------------------------
\* Calls of cleanup_id, once on a raw id and once more on what it returned

Frags == { <<"a">>, <<"B">>, <<"_">>, <<" ">>, <<"/">>,
           <<".", "p", "d", "b">>, <<".", "G", "Z">> }

RECURSIVE Concat(_)
Concat(ss) == IF ss = <<>> THEN <<>> ELSE Head(ss) \o Concat(Tail(ss))

RawIds == {Concat(fs) : fs \in SeqsUpTo(Frags, MaxFrags)}

LookupIdPool == { <<"a">>, <<"a", "_">>, <<"B">>, <<"a", ".", "p", "d", "b">> }

InitCleanup ==
    /\ pc = "call"
    /\ \E raw \in RawIds, lower \in BOOLEAN,
          lk \in {NoLookup} \cup {Lookup(S) : S \in SUBSET LookupIdPool} :
         args = [raw |-> raw, lower |-> lower, lookup |-> lk]
    /\ result = [first |-> NoneVal, second |-> NoneVal]
    /\ exit_code = -1
    /\ lookup = NoLookup
    /\ IdleGen /\ IdleComb

CleanupCall ==
    /\ pc = "call"
    /\ result' = [result EXCEPT !.first = cleanup_id(args.raw, args.lower, args.lookup)]
    /\ pc' = "once"
    /\ UNCHANGED <<args, exit_code, lookup, genVars, combVars>>

CleanupAgain ==
    /\ pc = "once"
    /\ result.first.some
    /\ result' = [result EXCEPT !.second = cleanup_id(result.first.val, args.lower, args.lookup)]
    /\ pc' = "twice"
    /\ UNCHANGED <<args, exit_code, lookup, genVars, combVars>>

NextCleanup == CleanupCall \/ CleanupAgain

SpecCleanup == InitCleanup /\ [][NextCleanup]_vars

\* C3: if cleanup_id(raw) returns an id c (not None) then cleanup_id(c) with
\* the same flag and lookup returns c.
C3_Idempotent ==
    pc = "twice" => result.second = result.first

-----------------------------------------------------------------------------
\* combine_motif_outputs.py : load_lookup, motif_files, extract_query_id,
\* iter_motif_lines

TAB == <<"\t">>

\* s.split('\t', 1)[0]
SplitTabFirst(s) ==
    IF Contains(s, "\t")
    THEN SubSeq(s, 1, (CHOOSE i \in 1..Len(s) :
                         s[i] = "\t" /\ \A j \in 1..(i - 1) : s[j] # "\t") - 1)
    ELSE s

\* s.split('\t')
RECURSIVE SplitTab(_)
SplitTab(s) ==
    IF ~Contains(s, "\t") THEN <<s>>
    ELSE LET first == SplitTabFirst(s)
         IN <<first>> \o SplitTab(SubSeq(s, Len(first) + 2, Len(s)))

\* s.split(): maximal runs of non-whitespace
RECURSIVE SplitWs(_)
SplitWs(s) ==
    LET t == LStrip(s) IN
    IF t = <<>> THEN <<>>
    ELSE LET n == IF \E i \in 1..Len(t) : IsSpace(t[i])
                  THEN (CHOOSE i \in 1..Len(t) :
                          IsSpace(t[i]) /\ \A j \in 1..(i - 1) : ~IsSpace(t[j])) - 1
                  ELSE Len(t)
         IN <<SubSeq(t, 1, n)>> \o SplitWs(SubSeq(t, n + 1, Len(t)))

\* load_lookup over the lines of the lookup file
load_lookup(lines) ==
    {Strip(SplitTabFirst(lines[i])) :
        i \in {j \in 1..Len(lines) :
                 /\ Strip(lines[j]) # <<>>
                 /\ ~StartsWith(lines[j], <<"#">>)
                 /\ Strip(SplitTabFirst(lines[j])) # <<>>}}

\* sorted(glob.glob(os.path.join(input_dir, pattern))), dir_names being the
\* names in input_dir that match the pattern
motif_files(input_dir, dir_names) ==
    SortedStrs({input_dir \o <<"/">> \o n : n \in dir_names})

\* files[: args.max_files] behind `if args.max_files` (0 stands for None)
LimitFiles(fs, max_files) == IF max_files # 0 THEN SliceTo(fs, max_files) ELSE fs

\* a query id cut at the first underscore
extract_query_id_first(path) ==
    LET base == RSplitLast(path, "/")
    IN IF Contains(base, "_")
       THEN SubSeq(base, 1, (CHOOSE i \in 1..Len(base) :
                               base[i] = "_" /\ \A j \in 1..(i - 1) : base[j] # "_") - 1)
       ELSE base

extract_query_id(path) == RSplitFirst(RSplitLast(path, "/"), "_")

\* what iter_motif_lines does with one line: skip it (yield = FALSE) or yield
\* (target, score)
NoYield == [yield |-> FALSE, target |-> <<>>, score |-> <<>>]

iter_motif_lines(line, target_col, score_col, min_fields, whitespace) ==
    LET stripped == Strip(line)
        tabbed   == SplitTab(stripped)
        parts    == IF whitespace THEN SplitWs(stripped)
                    ELSE IF Len(tabbed) < min_fields THEN SplitWs(stripped)
                    ELSE tabbed
    IN IF stripped = <<>> \/ StartsWith(stripped, <<"#">>) THEN NoYield
       ELSE IF Len(parts) < min_fields THEN NoYield
       ELSE IF target_col >= Len(parts) \/ score_col >= Len(parts) THEN NoYield
       ELSE [yield |-> TRUE, target |-> parts[target_col + 1],
             score |-> parts[score_col + 1]]

-----------------------------------------------------------------------------
\* float(score_txt) and f"{score}"

\* A float is kept as sign, integer part and fraction digits (no trailing
\* zeros), or as nan / inf.  Exponent notation and digit-group underscores are
\* outside the strings used here.
BadFloat == [ok |-> FALSE, kind |-> "err", neg |-> FALSE, ip |-> 0, fr |-> <<>>]

RECURSIVE DropTrailingZeros(_)
DropTrailingZeros(ds) == IF ds # <<>> /\ ds[Len(ds)] = "0"
                         THEN DropTrailingZeros(SubSeq(ds, 1, Len(ds) - 1)) ELSE ds

\* a float() that takes any text for a number
ParseFloatLax(s) == [ok |-> TRUE, kind |-> "num", neg |-> FALSE, ip |-> 0, fr |-> <<>>]

ParseFloat(s) ==
    LET t    == Strip(s)
        neg  == t # <<>> /\ t[1] = "-"
        body == IF t # <<>> /\ t[1] \in {"-", "+"} THEN Tail(t) ELSE t
        dot  == Contains(body, ".")
        ipS  == IF dot THEN SubSeq(body, 1, LastPos(body, ".") - 1) ELSE body
        frS  == IF dot THEN SubSeq(body, LastPos(body, ".") + 1, Len(body)) ELSE <<>>
        digitsOnly(x) == \A i \in 1..Len(x) : IsDigit(x[i])
    IN IF Lower(body) = <<"n", "a", "n">>
       THEN [ok |-> TRUE, kind |-> "nan", neg |-> FALSE, ip |-> 0, fr |-> <<>>]
       ELSE IF Lower(body) \in { <<"i", "n", "f">>,
                                 <<"i", "n", "f", "i", "n", "i", "t", "y">> }
       THEN [ok |-> TRUE, kind |-> "inf", neg |-> neg, ip |-> 0, fr |-> <<>>]
       ELSE IF digitsOnly(ipS) /\ digitsOnly(frS) /\ (ipS # <<>> \/ frS # <<>>)
       THEN [ok |-> TRUE, kind |-> "num", neg |-> neg,
             ip |-> StrToInt(ipS),
             fr |-> DropTrailingZeros(frS)]
       ELSE BadFloat

\* f"{score}" (repr of the float)
FormatFloat(f) ==
    IF f.kind = "nan" THEN <<"n", "a", "n">>
    ELSE (IF f.neg THEN <<"-">> ELSE <<>>) \o
         (IF f.kind = "inf" THEN <<"i", "n", "f">>
          ELSE IntToStr(f.ip) \o <<".">> \o (IF f.fr = <<>> THEN <<"0">> ELSE f.fr))

-----------------------------------------------------------------------------
\* combine_motif_outputs.py : main

\* `not args.keep_selfhits and q_clean == t_clean` with the flag inverted
is_self_hit_inverted(keep_selfhits, q, t) == keep_selfhits /\ q = t

\* `not args.keep_selfhits and q_clean == t_clean`
is_self_hit(keep_selfhits, q, t) == ~keep_selfhits /\ q = t

\* the fallback for a target the lookup does not resolve (keep-nonlookup)
target_fallback(target_raw, lower_flag) ==
    LET f0 == Strip(target_raw)
        f1 == IF Contains(f0, "/") THEN RSplitLast(f0, "/") ELSE f0
        hit == {i \in 1..Len(STRUCT_EXTS) : EndsWith(Lower(f1), STRUCT_EXTS[i])}
        f2 == IF hit = {} THEN f1
              ELSE LET i == CHOOSE i \in hit : \A j \in hit : i <= j
                   IN SubSeq(f1, 1, Len(f1) - Len(STRUCT_EXTS[i]))
    IN IF lower_flag THEN Lower(f2) ELSE f2

\* the basename/id fragment collected for the missing-ids report
missed_id(target_raw) ==
    LET m == Strip(target_raw)
    IN IF Contains(m, "/") THEN RSplitLast(m, "/") ELSE m

\* f"{q_clean}\t{t_clean}\t{score}" (the newline ends the row)
output_row(q, t, score) == q \o TAB \o t \o TAB \o FormatFloat(score)

lower_flag == ~args.no_lower

\* parsed arguments that are left at their argparse defaults
DefaultCombArgs ==
    [no_lower |-> FALSE, max_files |-> 0, add_header |-> FALSE, score_col |-> 1, target_col |-> 0,
     whitespace |-> FALSE, min_fields |-> 2, input_dir |-> <<"i">>]

HeaderRow == <<"q", "u", "e", "r", "y", "_", "i", "d", "\t",
               "t", "a", "r", "g", "e", "t", "_", "i", "d", "\t",
               "s", "c", "o", "r", "e">>

\* names in the input directory that match *_motif.out:
\*   q_motif.out, Z.pdb_motif.out, d1abc__A_motif.out
DirNamePool == { <<"q", "_", "m", "o", "t", "i", "f", ".", "o", "u", "t">>,
                 <<"Z", ".", "p", "d", "b", "_", "m", "o", "t", "i", "f", ".", "o", "u", "t">>,
                 <<"d", "1", "a", "b", "c", "_", "_", "A", "_", "m", "o", "t", "i", "f", ".", "o", "u", "t">> }

\* --scop-lookup: not given, a path that is no file, or a lookup file with the
\* lines "q<TAB>f", "d1xyz<TAB>f" and "#c"
LookupArgs ==
    { [given |-> FALSE, isfile |-> FALSE, lines |-> <<>>],
      [given |-> TRUE,  isfile |-> FALSE, lines |-> <<>>],
      [given |-> TRUE,  isfile |-> TRUE,
       lines |-> << <<"q", "\t", "f">>, <<"d", "1", "x", "y", "z", "\t", "f">>, <<"#", "c">> >>] }

\* lines a motif file may hold:
\*   /p/pdb/d1xyz_.pdb<TAB>3.5, q<TAB>2, z<TAB>n, w.pdb.gz<TAB>1, #x<TAB>1
LinePool == { <<"/", "p", "/", "p", "d", "b", "/", "d", "1", "x", "y", "z", "_", ".", "p", "d", "b", "\t", "3", ".", "5">>,
              <<"q", "\t", "2">>,
              <<"z", "\t", "n">>,
              <<"w", ".", "p", "d", "b", ".", "g", "z", "\t", "1">>,
              <<"#", "x", "\t", "1">> }

\* flag settings: --keep-nonlookup and --report-missing act only on a loaded
\* lookup, and --report-missing only under --verbose, so they are varied there
CombFlagSets ==
    { f \in [scop_lookup : LookupArgs, keep_nonlookup : BOOLEAN,
             keep_selfhits : BOOLEAN, dry_run : BOOLEAN, verbose : BOOLEAN,
             report_missing : BOOLEAN] :
        /\ ~f.scop_lookup.isfile => (~f.keep_nonlookup /\ ~f.report_missing)
        /\ ~f.verbose => ~f.report_missing }

InitCombiner ==
    /\ pc = "comb_start"
    /\ \E f \in CombFlagSets,
          dn \in {S \in SUBSET DirNamePool : Cardinality(S) <= MaxFiles} :
         args = f @@ [dir_names |-> dn] @@ DefaultCombArgs
    /\ result = <<>>
    /\ exit_code = -1
    /\ lookup = NoLookup
    /\ IdleGen /\ IdleComb

\* lines 153-160: load the lookup, or stop when its path is no file
CombLoadLookup ==
    /\ pc = "comb_start"
    /\ IF args.scop_lookup.given /\ ~args.scop_lookup.isfile
       THEN /\ exit_code' = 2
            /\ pc' = "exit"
            /\ UNCHANGED lookup
       ELSE /\ lookup' = IF args.scop_lookup.given
                         THEN Lookup(load_lookup(args.scop_lookup.lines))
                         ELSE NoLookup
            /\ pc' = "comb_discover"
            /\ UNCHANGED exit_code
    /\ UNCHANGED <<args, result, genVars, combVars>>

\* lines 162-169: discover the motif files, or stop when there is none
CombDiscover ==
    /\ pc = "comb_discover"
    /\ LET fs == LimitFiles(motif_files(args.input_dir, args.dir_names), args.max_files)
       IN /\ files' = fs
          /\ scanned' = [i \in 1..Len(fs) |-> <<>>]
          /\ IF fs = <<>>
             THEN exit_code' = 1 /\ pc' = "exit"
             ELSE UNCHANGED exit_code /\ pc' = "comb_open"
    /\ UNCHANGED <<args, result, lookup, genVars, fidx, q_clean, out_fh,
                   total_raw_lines, total_kept, total_self, total_lookup_missing,
                   missing_ids, report_file>>

\* lines 171-185: reset the counters, open the output unless --dry-run
CombOpen ==
    /\ pc = "comb_open"
    /\ total_raw_lines' = 0 /\ total_kept' = 0 /\ total_self' = 0
    /\ total_lookup_missing' = 0 /\ missing_ids' = {}
    /\ IF ~args.dry_run
       THEN /\ made_dirs' = made_dirs \cup {<<"o", "u", "t", "d", "i", "r">>}
            /\ out_fh' = Written(IF args.add_header THEN <<HeaderRow>> ELSE <<>>)
       ELSE UNCHANGED <<made_dirs, out_fh>>
    /\ fidx' = 1
    /\ pc' = "comb_file"
    /\ UNCHANGED <<args, result, lookup, rows, manifest, files, q_clean, scanned,
                   report_file, exit_code>>

\* number of lines read so far
RECURSIVE LinesRead(_)
LinesRead(sc) == IF sc = <<>> THEN 0 ELSE Len(Head(sc)) + LinesRead(Tail(sc))

\* lines 188-196: next file; its query id is cleaned, the file is skipped when
\* the lookup does not resolve it
CombBeginFile ==
    /\ pc = "comb_file"
    /\ fidx <= Len(files)
    /\ LET q_raw == extract_query_id(files[fidx])
           q     == cleanup_id(q_raw, lower_flag, lookup)
       IN IF ~q.some
          THEN IF lookup.present /\ ~args.keep_nonlookup
               THEN /\ fidx' = fidx + 1
                    /\ UNCHANGED <<pc, q_clean>>
               ELSE /\ q_clean' = (IF lower_flag THEN Lower(q_raw) ELSE q_raw)
                    /\ pc' = "comb_lines"
                    /\ UNCHANGED fidx
          ELSE /\ q_clean' = q.val
               /\ pc' = "comb_lines"
               /\ UNCHANGED fidx
    /\ UNCHANGED <<args, result, lookup, genVars, files, scanned, out_fh,
                   total_raw_lines, total_kept, total_self, total_lookup_missing,
                   missing_ids, report_file, exit_code>>

\* lines 197-230 with iter_motif_lines: one more line of the current file
CombReadLine(line) ==
    /\ pc = "comb_lines"
    /\ LinesRead(scanned) < MaxLines
    /\ scanned' = [scanned EXCEPT ![fidx] = Append(@, line)]
    /\ LET y == iter_motif_lines(line, args.target_col, args.score_col,
                                 args.min_fields, args.whitespace)
           t == cleanup_id(y.target, lower_flag, lookup)
           dropped == ~t.some /\ lookup.present /\ ~args.keep_nonlookup
           t_clean == IF t.some THEN t.val ELSE target_fallback(y.target, lower_flag)
           self  == is_self_hit(args.keep_selfhits, q_clean, t_clean)
           score == ParseFloat(y.score)
       IN IF ~y.yield
          THEN UNCHANGED <<total_raw_lines, total_lookup_missing, missing_ids,
                           total_self, total_kept, out_fh>>
          ELSE /\ total_raw_lines' = total_raw_lines + 1
               /\ IF dropped
                  THEN /\ total_lookup_missing' = total_lookup_missing + 1
                       /\ missing_ids' = missing_ids \cup {missed_id(y.target)}
                       /\ UNCHANGED <<total_self, total_kept, out_fh>>
                  ELSE /\ UNCHANGED <<total_lookup_missing, missing_ids>>
                       /\ IF self
                          THEN /\ total_self' = total_self + 1
                               /\ UNCHANGED <<total_kept, out_fh>>
                          ELSE IF ~score.ok
                          THEN UNCHANGED <<total_self, total_kept, out_fh>>
                          ELSE /\ out_fh' = IF out_fh.written
                                            THEN Written(Append(out_fh.lines,
                                                   output_row(q_clean, t_clean, score)))
                                            ELSE out_fh
                               /\ total_kept' = total_kept + 1
                               /\ UNCHANGED total_self
    /\ UNCHANGED <<pc, args, result, lookup, genVars, files, fidx, q_clean,
                   report_file, exit_code>>

\* the current file has no more lines
CombEndFile ==
    /\ pc = "comb_lines"
    /\ fidx' = fidx + 1
    /\ pc' = "comb_file"
    /\ UNCHANGED <<args, result, lookup, genVars, files, q_clean, scanned, out_fh,
                   total_raw_lines, total_kept, total_self, total_lookup_missing,
                   missing_ids, report_file, exit_code>>

\* lines 231-251: close the output, print the statistics, write the report
CombFinish ==
    /\ pc = "comb_file"
    /\ fidx > Len(files)
    /\ report_file' = IF args.verbose /\ lookup.present /\ args.report_missing
                         /\ missing_ids # {}
                      THEN Written(SortedStrs(missing_ids))
                      ELSE report_file
    /\ exit_code' = 0
    /\ pc' = "exit"
    /\ UNCHANGED <<args, result, lookup, genVars, files, fidx, q_clean, scanned,
                   out_fh, total_raw_lines, total_kept, total_self,
                   total_lookup_missing, missing_ids>>

NextCombiner ==
    \/ CombLoadLookup
    \/ CombDiscover
    \/ CombOpen
    \/ CombBeginFile
    \/ \E line \in LinePool : CombReadLine(line)
    \/ CombEndFile
    \/ CombFinish

SpecCombiner == InitCombiner /\ [][NextCombiner]_vars

-----------------------------------------------------------------------------
\* Properties of the combiner

\* the fields of a written row
RowQuery(row)  == SplitTab(row)[1]
RowTarget(row) == SplitTab(row)[2]
RowScore(row)  == SplitTab(row)[3]

\* the run is past its start-up checks
CombRunning == pc \in {"comb_file", "comb_lines"} \/ (pc = "exit" /\ exit_code = 0)

\* the lookup is in force: a lookup set is supplied and --keep-nonlookup is not
Strict == lookup.present /\ ~args.keep_nonlookup

\* what iter_motif_lines yields for a line under the run's arguments
Yielded(line) == iter_motif_lines(line, args.target_col, args.score_col,
                                  args.min_fields, args.whitespace)

\* a text that reads as a decimal number, nan or inf
LooksNumeric(txt) ==
    LET t    == Strip(txt)
        body == IF t # <<>> /\ t[1] \in {"-", "+"} THEN Tail(t) ELSE t
        dots == {i \in 1..Len(body) : body[i] = "."}
    IN \/ Lower(body) \in { <<"n", "a", "n">>, <<"i", "n", "f">>,
                            <<"i", "n", "f", "i", "n", "i", "t", "y">> }
       \/ /\ Cardinality(dots) <= 1
          /\ \A i \in (1..Len(body)) \ dots : body[i] \in DigitSet
          /\ Len(body) > Cardinality(dots)

\* all lines read so far, file after file
AllScanned == Concat(scanned)

CountIn(ls, P(_)) == Cardinality({i \in 1..Len(ls) : P(ls[i])})

\* C4: unless --keep-selfhits is given, no row whose query_id equals its
\* target_id is ever written to the combined output.
C4_NoSelfHitRows ==
    ~args.keep_selfhits =>
        \A i \in 1..Len(out_fh.lines) :
            RowQuery(out_fh.lines[i]) # RowTarget(out_fh.lines[i])

\* a self hit was dropped and another line of the run was written
C4_Witness ==
    /\ ~args.keep_selfhits
    /\ total_self >= 1
    /\ Len(out_fh.lines) >= 1

\* a line whose target the lookup cannot resolve
UnresolvedTarget(line) ==
    Yielded(line).yield /\ ~cleanup_id(Yielded(line).target, lower_flag, lookup).some

\* a file whose query id the lookup cannot resolve
UnresolvedQuery(i) == ~cleanup_id(RSplitFirst(RSplitLast(files[i], "/"), "_"),
                                  lower_flag, lookup).some

C5_State ==
    /\ (CombRunning /\ Strict) =>
          /\ \A i \in 1..Len(out_fh.lines) :
                /\ RowQuery(out_fh.lines[i]) \in lookup.ids
                /\ RowTarget(out_fh.lines[i]) \in lookup.ids
          /\ \A i \in 1..Len(files) : UnresolvedQuery(i) => scanned[i] = <<>>
          /\ total_lookup_missing = CountIn(AllScanned, UnresolvedTarget)
          /\ total_kept + total_self + total_lookup_missing <= total_raw_lines
    /\ (CombRunning /\ args.keep_nonlookup) =>
          /\ total_lookup_missing = 0
          /\ missing_ids = {}

C5_Step ==
    /\ (Strict /\ pc = "comb_lines" /\ pc' = "comb_lines"
          /\ UnresolvedTarget(scanned'[fidx][Len(scanned'[fidx])]))
       => (out_fh' = out_fh /\ total_kept' = total_kept)
    /\ (args.keep_nonlookup /\ pc = "comb_file" /\ fidx <= Len(files))
       => pc' = "comb_lines"

\* C5: with a lookup and without --keep-nonlookup every written query_id and
\* target_id is in the lookup set, a file with an unresolved query id
\* contributes no rows (it is not read) and a line with an unresolved target
\* contributes no row; with --keep-nonlookup no file is skipped and no line is
\* counted as a lookup miss.
C5_LookupFiltering == []C5_State /\ [][C5_Step]_vars

\* the lookup dropped a file and a line, repaired a target and let a row through
C5_Witness ==
    /\ Strict
    /\ pc = "exit"
    /\ \E i \in 1..Len(files) : UnresolvedQuery(i)
    /\ total_lookup_missing >= 1
    /\ \E i \in 1..Len(out_fh.lines) :
          RowTarget(out_fh.lines[i]) = <<"d", "1", "x", "y", "z">>

\* C8: with --dry-run the run writes no file at all, whatever the other flags.
C8_DryRunNoWrites ==
    args.dry_run =>
        /\ out_fh = NotWritten
        /\ report_file = NotWritten
        /\ made_dirs = {}

\* a dry run with --scop-lookup, --report-missing and --verbose has finished
\* after a lookup miss
C8_Reached ==
    /\ args.dry_run /\ args.verbose /\ args.report_missing
    /\ pc = "exit"
    /\ missing_ids # {}

\* Q of a result file named <Q>_motif.out
QOfFile(path) == LET base == RSplitLast(path, "/")
                 IN SubSeq(base, 1, Len(base) - Len(<<"_", "m", "o", "t", "i", "f", ".", "o", "u", "t">>))

\* an id with surrounding whitespace, path components and structure
\* extensions removed, in lower case
Normalized(id) ==
    LET x == Strip(id)
    IN Lower(StripExts(IF Contains(x, "/") THEN RSplitLast(x, "/") ELSE x))

\* the rows the lines of one file give: one row per line that has a target
\* and a numeric score and whose normalized target differs from the
\* normalized query; qcol is the query column of the rows
RECURSIVE RowsOfLines(_, _, _)
RowsOfLines(qcol, qnorm, lines) ==
    IF lines = <<>> THEN <<>>
    ELSE LET y == Yielded(Head(lines))
             rest == RowsOfLines(qcol, qnorm, Tail(lines))
         IN IF y.yield /\ LooksNumeric(y.score) /\ Normalized(y.target) # qnorm
            THEN << qcol \o TAB \o Normalized(y.target) \o TAB
                    \o FormatFloat(ParseFloat(y.score)) >> \o rest
            ELSE rest

\* no lookup, default flags, output being written
C9_Case == /\ CombRunning
           /\ ~args.scop_lookup.given /\ ~args.keep_selfhits /\ ~args.keep_nonlookup
           /\ ~args.dry_run /\ ~args.no_lower /\ ~args.add_header

\* C9 (as stated): without a lookup and with default flags the output is, in
\* sorted-file order and then line order, one row
\* (lowercase(Q), normalized target, score) per line with a target, a numeric
\* score and a normalized target other than the normalized query.
C9_Stated ==
    C9_Case =>
        out_fh.lines = Concat([i \in 1..Len(files) |->
                          RowsOfLines(Lower(QOfFile(files[i])),
                                      Normalized(QOfFile(files[i])), scanned[i])])

\* C9 (amended): as stated, but the query column is the normalized Q:
\* lowercase(Q) with structure extensions (and surrounding whitespace)
\* removed, as for the target.
C9_Rows ==
    C9_Case =>
        /\ files = SortedStrs(Range(files))
        /\ out_fh.lines = Concat([i \in 1..Len(files) |->
                             RowsOfLines(Normalized(QOfFile(files[i])),
                                         Normalized(QOfFile(files[i])), scanned[i])])

\* two files were read in sorted order; d1abc__A_motif.out with the line
\* /p/pdb/d1xyz_.pdb<TAB>3.5 gave the row d1abc__a<TAB>d1xyz_<TAB>3.5
C9_Witness ==
    /\ C9_Case
    /\ pc = "exit"
    /\ Len(files) = 2
    /\ Len(out_fh.lines) = 2
    /\ out_fh.lines[1] = <<"d", "1", "a", "b", "c", "_", "_", "a", "\t", "d", "1", "x", "y", "z", "_", "\t", "3", ".", "5">>
    /\ RowQuery(out_fh.lines[2]) = <<"q">>

\* a line that is yielded with a score that is no number
BadScoreLine(line) == Yielded(line).yield /\ ~LooksNumeric(Yielded(line).score)
NumericLine(line)  == Yielded(line).yield /\ LooksNumeric(Yielded(line).score)
YieldedLine(line)  == Yielded(line).yield

C10_State ==
    CombRunning =>
        LET numeric == CountIn(AllScanned, NumericLine)
        IN /\ total_raw_lines = CountIn(AllScanned, YieldedLine)
           /\ total_kept <= numeric
           /\ Len(out_fh.lines) <= numeric
           /\ \A i \in 1..Len(out_fh.lines) : LooksNumeric(RowScore(out_fh.lines[i]))

C10_Step ==
    (pc = "comb_lines" /\ pc' = "comb_lines"
       /\ BadScoreLine(scanned'[fidx][Len(scanned'[fidx])]))
    => /\ out_fh' = out_fh
       /\ total_kept' = total_kept
       /\ exit_code' = -1
       /\ fidx' = fidx

\* C10: a line whose score is no number never yields a row and is never
\* counted as kept, and the run goes on after it: the line leaves the run in
\* the same file, every line read is counted as scanned and every run that
\* got past its start-up checks ends with status 0 after the last file.
C10_BadScoreSkipped ==
    /\ []C10_State
    /\ [][C10_Step]_vars
    /\ []((pc = "exit" /\ exit_code = 0) => fidx = Len(files) + 1)

\* a line with a bad score was skipped, the next line of the same file was
\* kept and the run ended normally after a second file
C10_Witness ==
    /\ pc = "exit" /\ exit_code = 0
    /\ Len(files) = 2
    /\ Len(scanned[1]) = 2
    /\ BadScoreLine(scanned[1][1])
    /\ total_kept = 1
    /\ total_raw_lines = 2
    /\ Len(out_fh.lines) = 1

\* an id that still carries a path component or a structure-file extension
HasPathOrExt(id) ==
    \/ Contains(id, "/")
    \/ \E e \in 1..Len(STRUCT_EXTS) : EndsWith(Lower(id), STRUCT_EXTS[e])

\* C13: in every run, with or without a lookup and with or without
\* --keep-nonlookup, no target_id written to the combined output contains '/'
\* and none ends, in any case, with .pdb, .cif, .ent or .gz, stacked
\* extensions such as x.pdb.gz included.
C13_TargetStripped ==
    \A i \in 1..Len(out_fh.lines) : ~HasPathOrExt(RowTarget(out_fh.lines[i]))

\* a run with a lookup and --keep-nonlookup has read the line w.pdb.gz<TAB>1,
\* whose target the lookup does not resolve, and written a row for it
C13_Reached ==
    /\ pc = "exit" /\ exit_code = 0
    /\ lookup.present /\ args.keep_nonlookup /\ ~args.dry_run
    /\ \E f \in 1..Len(scanned) : \E l \in 1..Len(scanned[f]) :
          scanned[f][l] = <<"w", ".", "p", "d", "b", ".", "g", "z", "\t", "1">>
    /\ \E i \in 1..Len(out_fh.lines) :
          RowTarget(out_fh.lines[i]) = <<"w", ".", "p", "d", "b">>

-----------------------------------------------------------------------------
\* generate_folddisco_input.py : extract_chain, base_id, resolve_pdb_path

\* id_str.split('_')[-1]
LastPart(id_str) == RSplitLast(id_str, "_")

IsChain(c) == Len(c) = 1 /\ (IsAlpha(c[1]) \/ IsDigit(c[1]))

extract_chain(id_str) ==
    IF Contains(id_str, "_") /\ IsChain(LastPart(id_str)) THEN LastPart(id_str)
    ELSE IF id_str # <<>> /\ (IsAlpha(id_str[Len(id_str)]) \/ IsDigit(id_str[Len(id_str)]))
         THEN <<id_str[Len(id_str)]>>
    ELSE <<"A">>

base_id(id_str) ==
    IF Contains(id_str, "_") /\ IsChain(LastPart(id_str))
    THEN RSplitFirst(id_str, "_")
    ELSE id_str

PDB == <<".", "p", "d", "b">>

\* pdb_dir / name
PathJoin(dir, name) == dir \o <<"/">> \o name

\* existing is the set of file names in pdb_dir
resolve_pdb_path(pdb_dir, original_id, existing) ==
    LET b == base_id(original_id)
        candidates == << original_id \o <<"_">> \o PDB, original_id \o PDB,
                         b \o <<"_">> \o PDB, b \o PDB >>
        found   == {i \in 1..4 : candidates[i] \in existing}
        globbed == SortedStrs({n \in existing : /\ StartsWith(n, b)
                                                /\ Len(n) >= Len(b) + Len(PDB)
                                                /\ EndsWith(n, PDB)})
    IN IF found # {}
       THEN PathJoin(pdb_dir, candidates[CHOOSE i \in found : \A j \in found : i <= j])
       ELSE IF globbed # <<>> THEN PathJoin(pdb_dir, globbed[1])
       ELSE PathJoin(pdb_dir, candidates[1])

-----------------------------------------------------------------------------
\* generate_folddisco_input.py : main

\* percent_str for a whole percent
percent_str == IntToStr(args.percent)

\* out_dir / percent_str, the directory of the per-ID output paths
percent_dir == PathJoin(args.output_dir.path, percent_str)

\* re.sub(r'_(\d+(?:\.\d+)?|\d+p\d+)$', '', stem)
strip_percent_suffix(stem) ==
    LET tail == RSplitLast(stem, "_")
        sep  == {i \in 1..Len(tail) : tail[i] \in {".", "p"}}
        isNum(x) == x # <<>> /\ \A i \in 1..Len(x) : IsDigit(x[i])
    IN IF Contains(stem, "_")
          /\ \/ isNum(tail)
             \/ \E i \in sep : isNum(SubSeq(tail, 1, i - 1))
                               /\ isNum(SubSeq(tail, i + 1, Len(tail)))
       THEN RSplitFirst(stem, "_")
       ELSE stem

\* out_path.with_name(f"{stem}_{percent_str}{out_path.suffix}")
out_path == strip_percent_suffix(args.out_stem) \o <<"_">> \o percent_str \o args.out_suffix

\* one manifest row
manifest_row(pdb_path, motif, name) ==
    IF args.with_output_path /\ args.output_dir.given
    THEN pdb_path \o TAB \o motif \o TAB
         \o PathJoin(percent_dir, name \o <<"_", "m", "o", "t", "i", "f", ".", "o", "u", "t">>)
    ELSE pdb_path \o TAB \o motif

\* the --per-chain loop: one row per identifier
RECURSIVE per_chain_rows(_, _)
per_chain_rows(ids, score_lines) ==
    IF ids = <<>> \/ score_lines = <<>> THEN <<>>
    ELSE LET id_str == Head(ids)
             scores == Head(score_lines)
             sel    == select_indices(scores, args.percent, args.min_residues)
             parts  == collapse_ranges(extract_chain(id_str), sel)
             rest   == per_chain_rows(Tail(ids), Tail(score_lines))
         IN IF scores = <<>> \/ parts = <<>> THEN rest
            ELSE << manifest_row(PathJoin(args.pdb_dir, id_str \o <<"_">> \o PDB),
                                 Join(<<",">>, parts), id_str) >> \o rest

\* first loop of the merged mode: the (base, chain, sel) entries in id order
RECURSIVE chain_sel_entries(_, _)
chain_sel_entries(ids, score_lines) ==
    IF ids = <<>> \/ score_lines = <<>> THEN <<>>
    ELSE LET id_str == Head(ids)
             scores == Head(score_lines)
             sel    == select_indices(scores, args.percent, args.min_residues)
             rest   == chain_sel_entries(Tail(ids), Tail(score_lines))
         IN IF scores = <<>> \/ sel = <<>> THEN rest
            ELSE << [b |-> base_id(id_str), chain |-> extract_chain(id_str),
                     sel |-> sel] >> \o rest

\* keys of chain_sel_map in insertion order
RECURSIVE map_keys(_, _)
map_keys(entries, seen) ==
    IF entries = <<>> THEN <<>>
    ELSE IF Head(entries).b \in seen THEN map_keys(Tail(entries), seen)
    ELSE <<Head(entries).b>> \o map_keys(Tail(entries), seen \cup {Head(entries).b})

\* chain_tokens of one base: each chain collapsed separately, in entry order
RECURSIVE chain_tokens(_, _)
chain_tokens(entries, b) ==
    IF entries = <<>> THEN <<>>
    ELSE (IF Head(entries).b = b
          THEN collapse_ranges(Head(entries).chain, Head(entries).sel)
          ELSE <<>>) \o chain_tokens(Tail(entries), b)

\* second loop of the merged mode: one row per base
merged_rows(ids, score_lines) ==
    LET entries == chain_sel_entries(ids, score_lines)
        keys    == map_keys(entries, {})
    IN [i \in 1..Len(keys) |->
          manifest_row(resolve_pdb_path(args.pdb_dir, keys[i], args.pdb_files),
                       Join(<<",">>, chain_tokens(entries, keys[i])), keys[i])]

\* parsed arguments that do not vary
DefaultGenArgs ==
    [pdb_dir |-> <<"p">>, out_stem |-> <<"m">>, out_suffix |-> <<".", "t", "s", "v">>,
     out_parent |-> <<".">>]

\* identifiers read by read_ids: d1twfa__A, d1twfa__B, e_1
IdPool == { <<"d", "1", "t", "w", "f", "a", "_", "_", "A">>, <<"d", "1", "t", "w", "f", "a", "_", "_", "B">>, <<"e", "_", "1">> }

\* score rows read by read_scores
RowPool == { <<>>, <<Num(2), Num(1), NaN>>, <<Num(2), NaN, Num(2), Num(1)>> }

\* file names present in the pdb directory
PdbDirPool == { {}, { <<"d", "1", "t", "w", "f", "a", "_", ".", "p", "d", "b">> }, { <<"d", "1", "t", "w", "f", "a", "_", "2", ".", "p", "d", "b">>, <<"e", ".", "p", "d", "b">> }, { <<"d", "1", "t", "w", "f", "a", "_", "_", "A", "_", ".", "p", "d", "b">>, <<"d", "1", "t", "w", "f", "a", "_", ".", "p", "d", "b">> } }

InitGenerator ==
    /\ pc = "gen_start"
    /\ \E ids \in SeqsUpTo(IdPool, MaxIds), sl \in SeqsUpTo(RowPool, MaxIds),
          pm \in { <<50, 1>>, <<0, 0>> }, pch, wop, od \in BOOLEAN,
          pf \in PdbDirPool :
         args = [ids |-> ids, score_lines |-> sl, percent |-> pm[1],
                 min_residues |-> pm[2], per_chain |-> pch, with_output_path |-> wop,
                 output_dir |-> [given |-> od, path |-> <<"o">>], pdb_files |-> pf]
                @@ DefaultGenArgs
    /\ result = <<>>
    /\ exit_code = -1
    /\ lookup = NoLookup
    /\ IdleGen /\ IdleComb

\* a validation that lets mismatched row counts through
gen_input_error_lax(a) == a.with_output_path /\ ~a.output_dir.given

\* lines 196-199: the two fatal input errors
gen_input_error(a) ==
    \/ Len(a.score_lines) # Len(a.ids)
    \/ (a.with_output_path /\ ~a.output_dir.given)

\* lines 194-199: read the inputs, sys.exit(message) on an input error
GenValidate ==
    /\ pc = "gen_start"
    /\ IF gen_input_error(args)
       THEN exit_code' = 1 /\ pc' = "exit"
       ELSE UNCHANGED exit_code /\ pc' = "gen_mkdir"
    /\ UNCHANGED <<args, result, lookup, genVars, combVars>>

\* lines 200-216: create the percent sub-directory when --output-dir is given
GenMkdir ==
    /\ pc = "gen_mkdir"
    /\ made_dirs' = IF args.output_dir.given THEN made_dirs \cup {percent_dir}
                    ELSE made_dirs
    /\ pc' = "gen_rows"
    /\ UNCHANGED <<args, result, lookup, rows, manifest, combVars, exit_code>>

\* lines 221-271: build the manifest rows
GenRows ==
    /\ pc = "gen_rows"
    /\ rows' = IF args.per_chain THEN per_chain_rows(args.ids, args.score_lines)
               ELSE merged_rows(args.ids, args.score_lines)
    /\ pc' = "gen_write"
    /\ UNCHANGED <<args, result, lookup, made_dirs, manifest, combVars, exit_code>>

\* lines 272-276: create the manifest's directory and write the manifest
GenWrite ==
    /\ pc = "gen_write"
    /\ made_dirs' = made_dirs \cup {args.out_parent}
    /\ manifest' = [written |-> TRUE, lines |-> rows, path |-> out_path]
    /\ exit_code' = 0
    /\ pc' = "exit"
    /\ UNCHANGED <<args, result, lookup, rows, combVars>>

NextGenerator == GenValidate \/ GenMkdir \/ GenRows \/ GenWrite

SpecGenerator == InitGenerator /\ [][NextGenerator]_vars

-----------------------------------------------------------------------------
\* Properties of the generator

\* the base the documentation names for an identifier: the chain suffix and
\* the underscores before it removed (d1twfa for d1twfa__A)
RECURSIVE DropTrailingUnderscores(_)
DropTrailingUnderscores(x) ==
    IF x # <<>> /\ x[Len(x)] = "_" THEN DropTrailingUnderscores(SubSeq(x, 1, Len(x) - 1))
    ELSE x

DocBase(id_str) ==
    IF Contains(id_str, "_") /\ IsChain(LastPart(id_str))
    THEN DropTrailingUnderscores(RSplitFirst(id_str, "_"))
    ELSE id_str

\* positions of the identifiers that have a non-empty score row
Scored == {i \in 1..Len(args.ids) : args.score_lines[i] # <<>>}

\* the documented bases of the scored identifiers, in order of first occurrence
RECURSIVE FirstOccurrences(_, _)
FirstOccurrences(bs, seen) ==
    IF bs = <<>> THEN <<>>
    ELSE IF Head(bs) \in seen THEN FirstOccurrences(Tail(bs), seen)
    ELSE <<Head(bs)>> \o FirstOccurrences(Tail(bs), seen \cup {Head(bs)})

DocBases ==
    LET pos == SortedInts(Scored)
    IN FirstOccurrences([k \in 1..Len(pos) |-> DocBase(args.ids[pos[k]])], {})

\* the tokens of all scored identifiers of one documented base, in list order
RECURSIVE DocTokens(_, _)
DocTokens(i, b) ==
    IF i > Len(args.ids) THEN <<>>
    ELSE (IF i \in Scored /\ DocBase(args.ids[i]) = b
          THEN collapse_ranges(extract_chain(args.ids[i]),
                               select_indices(args.score_lines[i], args.percent,
                                              args.min_residues))
          ELSE <<>>) \o DocTokens(i + 1, b)

\* C6: in merged mode all identifiers with a non-empty score row that share a
\* base give exactly one manifest row, named after the base with the chain
\* suffix removed (d1twfa for d1twfa__A and d1twfa__B), whose motif column is
\* the comma-joined tokens of the chains in identifier order; rows come in
\* order of first occurrence of their base.
C6_MergedRows ==
    (pc = "exit" /\ exit_code = 0 /\ manifest.written /\ ~args.per_chain
       /\ args.min_residues >= 1)
    => manifest.lines =
         [k \in 1..Len(DocBases) |->
            manifest_row(resolve_pdb_path(args.pdb_dir, DocBases[k], args.pdb_files),
                         Join(<<",">>, DocTokens(1, DocBases[k])), DocBases[k])]

\* the merged run on d1twfa__A and d1twfa__B has written its manifest
C6_Reached ==
    /\ pc = "exit" /\ exit_code = 0 /\ ~args.per_chain
    /\ args.ids = << <<"d", "1", "t", "w", "f", "a", "_", "_", "A">>, <<"d", "1", "t", "w", "f", "a", "_", "_", "B">> >>
    /\ args.percent = 50
    /\ args.with_output_path /\ args.output_dir.given
    /\ args.pdb_files = {}
    /\ manifest.lines = << <<"p", "/", "d", "1", "t", "w", "f", "a", "_", "_", ".", "p", "d", "b", "\t", "A", "1", "-", "2", ",", "B", "1", ",", "B", "3", "\t", "o", "/", "5", "0", "/", "d", "1", "t", "w", "f", "a", "_", "_", "m", "o", "t", "i", "f", ".", "o", "u", "t">> >>

\* the four file names the documentation lists for an identifier
StatedCandidates(id_str) ==
    << id_str \o <<"_">> \o PDB, id_str \o PDB,
       base_id(id_str) \o <<"_">> \o PDB, base_id(id_str) \o PDB >>

\* the documented resolution for an identifier of the ids file: the first
\* listed name that exists, else the first sorted <base_id>*.pdb, else the
\* first listed name
StatedResolve(id_str) ==
    LET c     == StatedCandidates(id_str)
        found == {i \in 1..4 : c[i] \in args.pdb_files}
        glob  == SortedStrs({n \in args.pdb_files :
                                /\ StartsWith(n, base_id(id_str))
                                /\ Len(n) >= Len(base_id(id_str)) + Len(PDB)
                                /\ EndsWith(n, PDB)})
    IN PathJoin(args.pdb_dir,
                IF found # {} THEN c[CHOOSE i \in found : \A j \in found : i <= j]
                ELSE IF glob # <<>> THEN glob[1]
                ELSE c[1])

\* positions of the identifiers that reach the merged map under a base
Members(b) ==
    {i \in 1..Len(args.ids) :
        /\ args.score_lines[i] # <<>>
        /\ select_indices(args.score_lines[i], args.percent, args.min_residues) # <<>>
        /\ base_id(args.ids[i]) = b}

\* the bases of the merged map in insertion order
MergedKeys == map_keys(chain_sel_entries(args.ids, args.score_lines), {})

\* C11: in merged mode the structure path of a manifest row is, for an
\* identifier of the row's group, the first existing of <original_id>_.pdb,
\* <original_id>.pdb, <base_id>_.pdb, <base_id>.pdb, else the first sorted
\* match of <base_id>*.pdb, else the first candidate; every group gives a row
\* and the run ends with status 0 whether or not a file was found.
C11_ResolveOrder ==
    (pc = "exit" /\ ~gen_input_error(args) /\ ~args.per_chain)
    => /\ exit_code = 0
       /\ Len(manifest.lines) = Len(MergedKeys)
       /\ \A k \in 1..Len(manifest.lines) :
             \E i \in Members(MergedKeys[k]) :
                SplitTab(manifest.lines[k])[1] = StatedResolve(args.ids[i])

\* the merged run on d1twfa__A alone, with d1twfa__A_.pdb and d1twfa_.pdb in
\* the pdb directory, has written its manifest
C11_Reached ==
    /\ pc = "exit" /\ exit_code = 0 /\ ~args.per_chain
    /\ args.ids = << <<"d", "1", "t", "w", "f", "a", "_", "_", "A">> >>
    /\ <<"d", "1", "t", "w", "f", "a", "_", "_", "A", "_", ".", "p", "d", "b">> \in args.pdb_files
    /\ Len(manifest.lines) = 1
    /\ SplitTab(manifest.lines[1])[1] = <<"p", "/", "d", "1", "t", "w", "f", "a", "_", ".", "p", "d", "b">>


-----------------------------------------------------------------------------
\* Both scripts

Init == InitGenerator \/ InitCombiner

Next == NextGenerator \/ NextCombiner

Spec == Init /\ [][Next]_vars

IsGeneratorRun == "ids" \in DOMAIN args
IsCombinerRun  == "dir_names" \in DOMAIN args

NothingWritten ==
    /\ made_dirs = {}
    /\ manifest = NotWritten
    /\ out_fh = NotWritten
    /\ report_file = NotWritten

Failed == pc = "exit" => exit_code \notin {0, -1}

\* C7: a fatal input error ends the run with a non-zero status before any
\* output: the generator on a row-count mismatch or --with-output-path
\* without --output-dir stops before the percent directory is made and the
\* manifest written; the combiner on a missing lookup file or no matched file
\* stops before the output file is opened.
C7_FatalBeforeOutput ==
    /\ (IsGeneratorRun /\ (\/ Len(args.ids) # Len(args.score_lines)
                           \/ (args.with_output_path /\ ~args.output_dir.given)))
       => (pc \in {"gen_start", "exit"} /\ NothingWritten /\ Failed)
    /\ (IsCombinerRun /\ args.scop_lookup.given /\ ~args.scop_lookup.isfile)
       => (pc \in {"comb_start", "exit"} /\ NothingWritten /\ Failed)
    /\ (IsCombinerRun /\ args.dir_names = {})
       => (pc \in {"comb_start", "comb_discover", "exit"} /\ NothingWritten /\ Failed)
    /\ exit_code \notin {0, -1} => NothingWritten

\* a generator run given --output-dir has stopped on a row-count mismatch
C7_Witness ==
    /\ IsGeneratorRun
    /\ pc = "exit" /\ exit_code = 1
    /\ Len(args.ids) = 2 /\ Len(args.score_lines) = 1
    /\ args.output_dir.given /\ args.with_output_path
    /\ made_dirs = {} /\ manifest = NotWritten

====
